---- MODULE Spec2Model ----
(***************************************************************************)
(* Model of the BackupKeyFiles pipeline: FileDiscoverer.discover_all_files *)
(* (lib/discoverer.py), BackupManager.__init__ / run_backup                *)
(* (lib/manager.py), FileEncryptor (lib/encryptor.py) and                  *)
(* Archiver.compress_files (lib/archiver.py).                              *)
(*                                                                         *)
(* A path is the sequence of its segments below the root "/": the path     *)
(* /home/u/.ssh is <<"home", "u", ".ssh">>.  pathlib keeps ".." segments   *)
(* as they are written, so they are kept in the sequences too; only the    *)
(* operating system resolves them, when a path is opened (Resolve).        *)
(***************************************************************************)
EXTENDS Integers, Sequences, FiniteSets, TLC

\* Longest rule list the configurations range over.
MaxRules == 2

\* Longest file content the cipher is run on.
MaxPlainLen == 2

\* Most bits an attacker flips in one blob.
MaxFlips == 1

(***************************************************************************)
(* Paths                                                                   *)
(***************************************************************************)

\* Path.home()
Home == <<"home", "u">>

\* config_data["temporary_staging_path"]
StagingPath == <<"tmp", "staging">>

\* config_data["backup_destination_path"]
DestinationPath == <<"tmp", "backups">>

\* The regular files of the machine, by canonical path.
RegularFiles ==
    { <<"home", "u", ".bash_history">>,
      <<"home", "u", ".ssh", "id_rsa">>,
      <<"home", "u", "etc", "passwd">>,
      <<"etc", "passwd">> }

IsPrefix(p, q) == Len(p) <= Len(q) /\ SubSeq(q, 1, Len(p)) = p

Parent(p) == IF p = <<>> THEN <<>> ELSE SubSeq(p, 1, Len(p) - 1)

\* The directories of the machine: the root and every ancestor of a file.
Directories ==
    UNION { { SubSeq(f, 1, n) : n \in 0..(Len(f) - 1) } : f \in RegularFiles }

\* What a path that does not lead anywhere resolves to.
Missing == <<"?">>

\* The operating system's resolution of a path, segment by segment: a
\* segment is looked up in a directory, ".." steps to the parent directory.
RECURSIVE Walk(_, _)
Walk(cur, rest) ==
    IF rest = <<>> THEN cur
    ELSE IF cur \notin Directories THEN Missing
    ELSE IF Head(rest) = ".." THEN Walk(Parent(cur), Tail(rest))
    ELSE Walk(Append(cur, Head(rest)), Tail(rest))

Resolve(p) == Walk(<<>>, p)

\* Path.is_file(); Path.exists() is true of files and directories.
is_file(p) == Resolve(p) \in RegularFiles

is_dir(p) == Resolve(p) \in Directories

exists(p) == is_file(p) \/ is_dir(p)

\* The files and directories strictly below directory d, each as the
\* segments that follow d.
Below(d) ==
    { SubSeq(e, Len(Resolve(d)) + 1, Len(e)) :
        e \in { g \in RegularFiles \cup Directories :
                  IsPrefix(Resolve(d), g) /\ g # Resolve(d) } }

\* Path.iterdir(): the entries directly inside d, spelled d / name.
iterdir(d) == { d \o r : r \in { b \in Below(d) : Len(b) = 1 } }

\* fnmatch of an entry name against a glob pattern: "*" matches every
\* name, a pattern without wildcard matches only itself.
Matches(name, pattern) == pattern = "*" \/ name = pattern

\* Path.glob(pattern) and Path.rglob(pattern); both skip a directory they
\* are not permitted to list.
glob(d, pattern, unreadable) ==
    IF Resolve(d) \in unreadable THEN {}
    ELSE { d \o r : r \in { b \in Below(d) : Len(b) = 1 /\ Matches(b[1], pattern) } }

rglob(d, pattern, unreadable) ==
    { d \o r : r \in { b \in Below(d) :
        /\ Matches(b[Len(b)], pattern)
        /\ \A n \in 0..(Len(b) - 1) : Resolve(d) \o SubSeq(b, 1, n) \notin unreadable } }

(***************************************************************************)
(* FileDiscoverer                                                          *)
(***************************************************************************)

\* The value of a rule field that the rule does not carry.
None == <<"None">>

Rule(type, path, patterns, recursive, enabled) ==
    [type |-> type, path |-> path, patterns |-> patterns,
     recursive |-> recursive, enabled |-> enabled]

\* The rules the configurations are built from.
RuleUniverse ==
    { Rule("shell_history", None, {}, TRUE, TRUE),
      Rule("shell_history", None, {}, TRUE, FALSE),
      Rule("ssh_keys", None, {}, TRUE, TRUE),
      Rule("gpg_keys", None, {}, TRUE, TRUE),
      Rule("custom_path", <<"home", "u", "etc", "passwd">>, {}, TRUE, TRUE),
      Rule("custom_path", <<"etc", "passwd">>, {}, TRUE, TRUE),
      Rule("custom_path", <<"home", "u", ".ssh">>, {}, TRUE, TRUE),
      Rule("custom_path", <<"home", "u", ".gitconfig">>, {}, TRUE, TRUE),
      Rule("custom_directory", <<"home", "u">>, {"*"}, FALSE, TRUE),
      Rule("custom_directory", <<"home", "u">>, {"passwd"}, TRUE, TRUE) }

\* The values of the HISTFILE environment variable: unset, the catalog's
\* own spelling of the bash history file, and a spelling of the same file
\* through "..".
HistfileChoices ==
    { None,
      <<"home", "u", ".bash_history">>,
      <<"home", "u", "..", "u", ".bash_history">> }

common_files ==
    { ".bash_history", ".zsh_history", ".fish_history",
      ".python_history", ".node_repl_history" }

get_shell_history_files(histfile_env) ==
    LET history_files ==
            { fpath \in { Append(Home, fname) : fname \in common_files } :
                exists(fpath) /\ is_file(fpath) }
    IN  IF histfile_env # None /\ exists(histfile_env) /\ is_file(histfile_env)
           /\ histfile_env \notin history_files
        THEN history_files \cup {histfile_env}
        ELSE history_files

ssh_dir == Append(Home, ".ssh")

gpg_dir == Append(Home, ".gpg")

get_ssh_key_files == { item \in iterdir(ssh_dir) : is_file(item) }

get_gpg_key_files == { item \in iterdir(gpg_dir) : is_file(item) }

\* The files one rule adds to all_files_to_backup.
RuleFiles(rule, histfile_env, unreadable) ==
    CASE rule.type = "shell_history" -> get_shell_history_files(histfile_env)
      [] rule.type = "ssh_keys" ->
            IF is_dir(ssh_dir) THEN get_ssh_key_files ELSE {}
      [] rule.type = "gpg_keys" ->
            IF is_dir(gpg_dir) THEN get_gpg_key_files ELSE {}
      [] rule.type = "custom_path" ->
            IF exists(rule.path) /\ is_file(rule.path) THEN {rule.path} ELSE {}
      [] rule.type = "custom_directory" ->
            IF is_dir(rule.path)
            THEN UNION { IF rule.recursive
                         THEN rglob(rule.path, pattern, unreadable)
                         ELSE glob(rule.path, pattern, unreadable) :
                         pattern \in rule.patterns }
            ELSE {}
      [] OTHER -> {}

\* iterdir() of a directory the process may not list raises
\* PermissionError, which no code of the discoverer catches.
RuleRaises(rule, unreadable) ==
    \/ rule.type = "ssh_keys" /\ is_dir(ssh_dir) /\ Resolve(ssh_dir) \in unreadable
    \/ rule.type = "gpg_keys" /\ is_dir(gpg_dir) /\ Resolve(gpg_dir) \in unreadable

DiscoverRaises(rules, unreadable) ==
    \E i \in 1..Len(rules) : RuleRaises(rules[i], unreadable)

\* The members of final_list: Path objects are compared by their segments
\* as written, so the set holds one member per spelling.
discover_all_files(rules, histfile_env, unreadable) ==
    LET all_files_to_backup ==
            UNION { RuleFiles(rules[i], histfile_env, unreadable) : i \in 1..Len(rules) }
    IN  { f \in all_files_to_backup : is_file(f) }

\* The orders a list built from a set can have.
Orders(S) ==
    { s \in [1..Cardinality(S) -> S] : \A i, j \in 1..Cardinality(S) : s[i] = s[j] => i = j }

(***************************************************************************)
(* FileEncryptor, Archiver                                                 *)
(***************************************************************************)

\* What is typed at a passphrase prompt.
Passphrases == { "", "correct-horse" }

\* The archive_format settings; "rar" is none the Archiver supports.
ArchiveFormats == { "tar.gz", "zip", "rar" }

\* FileEncryptor.__init__: the key is the SHA-256 digest of the passphrase.
FileEncryptor(passphrase) == <<"sha256", passphrase>>

\* self.encryptor before __init__ has assigned it.
Unset == <<"unset">>

\* A file a crashed run left in the staging root.
Leftover == [path |-> StagingPath \o <<"leftover">>, src |-> <<"stale">>, key |-> None]

\* The archive before compress_files has opened it.
NoArchive == [state |-> "absent", entries |-> <<>>]

(***************************************************************************)
(* FileEncryptor.encrypt_file / decrypt_file                               *)
(*                                                                         *)
(* A file content is a sequence of bytes; the model's plaintext bytes are  *)
(* single bits.  AES-GCM is modelled as an ideal authenticated cipher: a   *)
(* keystream in counter mode, and a tag that verifies only for a (key,     *)
(* nonce, ciphertext||tag) that AESGCM.encrypt has produced.               *)
(***************************************************************************)

VARIABLES
    c_pc,          \* "idle", "plain", "encrypted", "decrypted"
    c_key,         \* the key of the encrypting FileEncryptor
    c_plain,       \* the content of encrypt_file's input file
    c_written,     \* the content encrypt_file wrote to its output file
    c_blob,        \* the content of decrypt_file's input file
    c_issued,      \* what AESGCM.encrypt has produced, with key and nonce
    c_flips,       \* how many bits of c_blob have been flipped
    c_dkey,        \* the key of the decrypting FileEncryptor
    c_out_exists,  \* decrypt_file's output file exists
    c_out,         \* the content of decrypt_file's output file
    c_result       \* how decrypt_file ended: "", "ok" or the exception

cipher_vars == << c_pc, c_key, c_plain, c_written, c_blob, c_issued, c_flips,
                  c_dkey, c_out_exists, c_out, c_result >>

\* os.urandom(12)
NonceLen == 12

\* f_in.read(12)
ReadNonceLen == 12

\* The length of the tag AESGCM.encrypt appends to the ciphertext.
TagLen == 16

Keys == { FileEncryptor("correct-horse"), FileEncryptor("tr0ub4dor") }

\* The file contents the cipher is run on, the empty file among them.
Plaintexts == UNION { [1..n -> {0, 1}] : n \in 0..MaxPlainLen }

\* The values of os.urandom(12) the runs draw.
Nonces == { [i \in 1..NonceLen |-> 0], [i \in 1..NonceLen |-> i % 2] }

Xor(a, b) == (a + b) % 2

KeyBit(key) == IF key = FileEncryptor("correct-horse") THEN 0 ELSE 1

\* The counter-mode keystream of (key, nonce) at byte i.
Keystream(key, nonce, i) ==
    Xor(Xor(KeyBit(key), nonce[((i - 1) % Len(nonce)) + 1]), i % 2)

CtrMode(key, nonce, data) ==
    [i \in 1..Len(data) |-> Xor(data[i], Keystream(key, nonce, i))]

\* The tag of (key, nonce, ciphertext), TagLen bytes.
Tag(key, nonce, ct) ==
    [i \in 1..TagLen |->
        IF i = 1 THEN KeyBit(key)
        ELSE IF i = 2 THEN Len(ct)
        ELSE IF i - 2 <= Len(ct) THEN ct[i - 2]
        ELSE nonce[((i - 1) % Len(nonce)) + 1]]

\* self.aesgcm.encrypt(nonce, plaintext, None): ciphertext || tag
AESGCM_encrypt(key, nonce, plaintext) ==
    CtrMode(key, nonce, plaintext) \o Tag(key, nonce, CtrMode(key, nonce, plaintext))

\* decrypt that returns the plaintext without verifying the tag.
AESGCM_decrypt_Unverified(issued, key, nonce, data) ==
    [ok |-> TRUE,
     plaintext |-> CtrMode(key, nonce, SubSeq(data, 1, Len(data) - TagLen))]

\* self.aesgcm.decrypt(nonce, ciphertext, None): the plaintext, or
\* InvalidTag when the tag does not verify under the key.
AESGCM_decrypt(issued, key, nonce, data) ==
    IF [key |-> key, nonce |-> nonce, data |-> data] \in issued
    THEN [ok |-> TRUE,
          plaintext |-> CtrMode(key, nonce, SubSeq(data, 1, Len(data) - TagLen))]
    ELSE [ok |-> FALSE, plaintext |-> <<>>]

\* encrypt_file: the bytes written to output_file_path.
encrypt_file(key, nonce, plaintext) == nonce \o AESGCM_encrypt(key, nonce, plaintext)

\* decrypt_file that takes the first 16 bytes for the nonce.
decrypt_file_WrongFraming(issued, key, blob) ==
    AESGCM_decrypt(issued, key, SubSeq(blob, 1, TagLen), SubSeq(blob, TagLen + 1, Len(blob)))

\* decrypt_file: what aesgcm.decrypt is called with and returns.
decrypt_file(issued, key, blob) ==
    AESGCM_decrypt(issued, key, SubSeq(blob, 1, ReadNonceLen),
                   SubSeq(blob, ReadNonceLen + 1, Len(blob)))

\* One bit of byte b flipped.
FlipBit(b) == IF b % 2 = 0 THEN b + 1 ELSE b - 1

\* No FileEncryptor in use.
CipherIdle ==
    /\ c_pc = "idle"
    /\ c_key = Unset
    /\ c_plain = <<>>
    /\ c_written = <<>>
    /\ c_blob = <<>>
    /\ c_issued = {}
    /\ c_flips = 0
    /\ c_dkey = Unset
    /\ c_out_exists = FALSE
    /\ c_out = <<>>
    /\ c_result = ""

(***************************************************************************)
(* KeyBackup (keyfiles_backup.py), the standalone program                  *)
(***************************************************************************)

VARIABLES
    k_pc,           \* where KeyBackup is
    k_keys,         \* [self.ssh_key_path, self.gpg_key_path], each as found on disk
    k_temp_exists,  \* the directory ~/temp_keys_backup exists
    k_temp_files,   \* the names of the files in ~/temp_keys_backup
    k_zip,          \* the file at zip_path
    k_error         \* the exception run_backup raised, "" if none

keybackup_vars == << k_pc, k_keys, k_temp_exists, k_temp_files, k_zip, k_error >>

\* What a key path can lead to: a readable file, nothing, or a file the
\* process may not read (os.path.exists is true of it, shutil.copy2 raises).
KeyPathKinds == { "file", "missing", "unreadable" }

\* The file names the two key paths end in.
KeyNames == << "id_rsa", "gpg_private.key" >>

\* What ~/temp_keys_backup holds before the program starts: it is absent,
\* or an earlier run left it, empty or with a file in it.
TempDirStates ==
    { [exists |-> FALSE, files |-> {}],
      [exists |-> TRUE, files |-> {}],
      [exists |-> TRUE, files |-> {"old_key"}] }

\* What zip_path holds before the program starts: nothing, or the
\* archive of an earlier run.
ZipStates ==
    { [state |-> "absent", entries |-> {}],
      [state |-> "complete", entries |-> {"old_key"}] }

\* No KeyBackup in use.
KeyBackupIdle ==
    /\ k_pc = "idle"
    /\ k_keys = << "missing", "missing" >>
    /\ k_temp_exists = FALSE
    /\ k_temp_files = {}
    /\ k_zip = [state |-> "absent", entries |-> {}]
    /\ k_error = ""

(***************************************************************************)
(* BackupManager                                                           *)
(***************************************************************************)

\* The variables of the other programs of the repository.
others == << cipher_vars, keybackup_vars >>

VARIABLES
    pc,                       \* where the manager is
    files_to_include,         \* config_data["files_to_include"]
    histfile,                 \* os.environ.get('HISTFILE')
    unreadable,               \* the directories the process may not list
    entered,                  \* the two passphrase entries, None without prompt
    archive_format,           \* config_data["archive_format"]
    encryptor,                \* self.encryptor: Unset, None or the key
    destination_exists,       \* the backup destination directory exists
    staging_exists,           \* the staging root exists
    disk,                     \* the files written under or through the staging root
    original_files,           \* run_backup's original_files
    staged_files_for_archive, \* run_backup's staged_files_for_archive
    archive,                  \* the file at final_archive_path
    error,                    \* the exception in flight or raised, "" if none
    reported                  \* what the run printed as its result, "" if nothing

manager_vars ==
    << pc, files_to_include, histfile, unreadable, entered, archive_format,
       encryptor, destination_exists, staging_exists, disk, original_files,
       staged_files_for_archive, archive, error, reported >>

vars == << manager_vars, others >>

config == << files_to_include, histfile, unreadable >>

RuleLists == UNION { [1..n -> RuleUniverse] : n \in 0..MaxRules }

\* The lexical value of a path once its ".." segments are followed, every
\* directory on the way existing.
RECURSIVE Collapse(_, _)
Collapse(cur, rest) ==
    IF rest = <<>> THEN cur
    ELSE IF Head(rest) = ".." THEN Collapse(Parent(cur), Tail(rest))
    ELSE Collapse(Append(cur, Head(rest)), Tail(rest))

\* The file a path under the staging root is written to or read from.
Target(p) == Collapse(<<>>, p)

Under(root, p) == IsPrefix(root, p) /\ p # root

\* shutil.rmtree(self.staging_path)
rmtree(files) == { f \in files : ~Under(StagingPath, f.path) }

Init ==
    /\ pc = "new"
    /\ files_to_include \in RuleLists
    /\ histfile \in HistfileChoices
    /\ unreadable \in { {}, {ssh_dir} }
    /\ entered = None
    /\ archive_format = "tar.gz"
    /\ encryptor = Unset
    /\ destination_exists \in BOOLEAN
    /\ staging_exists \in BOOLEAN
    /\ disk = IF staging_exists THEN {Leftover} ELSE {}
    /\ original_files = <<>>
    /\ staged_files_for_archive = <<>>
    /\ archive = NoArchive
    /\ error = ""
    /\ reported = ""
    /\ CipherIdle
    /\ KeyBackupIdle

\* BackupManager.__init__
Construct(prompt, passphrase, confirm_passphrase, format) ==
    /\ pc = "new"
    /\ destination_exists' = TRUE
    /\ entered' = IF prompt THEN <<passphrase, confirm_passphrase>> ELSE None
    /\ archive_format' = format
    /\ IF prompt /\ passphrase # confirm_passphrase
       THEN /\ pc' = "aborted"
            /\ error' = "ValueError: Passphrases do not match."
            /\ UNCHANGED encryptor
       ELSE IF format \notin {"tar.gz", "zip"}
       THEN /\ pc' = "aborted"
            /\ error' = "ValueError: Unsupported archive format."
            /\ UNCHANGED encryptor
       ELSE /\ pc' = "constructed"
            /\ encryptor' = IF prompt /\ passphrase # ""
                             THEN FileEncryptor(passphrase) ELSE None
            /\ UNCHANGED error
    /\ UNCHANGED << others, config, staging_exists, disk, original_files,
                    staged_files_for_archive, archive, reported >>

\* run_backup without its early return on an empty original_files.
Discover_NoEarlyReturn ==
    /\ pc = "constructed"
    /\ IF DiscoverRaises(files_to_include, unreadable)
       THEN /\ pc' = "failed"
            /\ error' = "PermissionError"
            /\ UNCHANGED << original_files, reported >>
       ELSE /\ pc' = "setup"
            /\ original_files' \in Orders(discover_all_files(files_to_include, histfile, unreadable))
            /\ UNCHANGED << error, reported >>
    /\ UNCHANGED << others, config, entered, archive_format, encryptor, destination_exists,
                    staging_exists, disk, staged_files_for_archive, archive >>

\* run_backup up to its early return: discovery, outside the try block.
Discover ==
    /\ pc = "constructed"
    /\ IF DiscoverRaises(files_to_include, unreadable)
       THEN /\ pc' = "failed"
            /\ error' = "PermissionError"
            /\ UNCHANGED << original_files, reported >>
       ELSE LET found == discover_all_files(files_to_include, histfile, unreadable)
            IN  IF found = {}
                THEN /\ pc' = "done"
                     /\ reported' = "No files found to back up."
                     /\ UNCHANGED << original_files, error >>
                ELSE /\ pc' = "setup"
                     /\ original_files' \in Orders(found)
                     /\ UNCHANGED << error, reported >>
    /\ UNCHANGED << others, config, entered, archive_format, encryptor, destination_exists,
                    staging_exists, disk, staged_files_for_archive, archive >>

\* _setup_staging_area
SetupStaging ==
    /\ pc = "setup"
    /\ disk' = IF staging_exists THEN rmtree(disk) ELSE disk
    /\ staging_exists' = TRUE
    /\ pc' = "staging"
    /\ UNCHANGED << others, config, entered, archive_format, encryptor, destination_exists,
                    original_files, staged_files_for_archive, archive, error, reported >>

\* original_file_path.relative_to(Path.home()), or on ValueError the parts
\* after the leading "/".
relative_path(original_file_path) ==
    IF IsPrefix(Home, original_file_path)
    THEN SubSeq(original_file_path, Len(Home) + 1, Len(original_file_path))
    ELSE original_file_path

staged_file_dest_path(original_file_path) ==
    StagingPath \o relative_path(original_file_path)

\* The file the loop of run_backup is at.
NextOriginal == original_files[Len(staged_files_for_archive) + 1]

\* compress_files called from inside the loop body, after the first file.
AllStaged_InsideLoop == Len(staged_files_for_archive) >= 1

\* The loop of run_backup has run to its end.
AllStaged == Len(staged_files_for_archive) = Len(original_files)

\* encrypt_file or shutil.copy2 into the staging area: the file written
\* holds the source's bytes, under the key if there is an encryptor.
WriteStaged(files, original_file_path, key) ==
    { f \in files : f.path # Target(staged_file_dest_path(original_file_path)) }
        \cup { [path |-> Target(staged_file_dest_path(original_file_path)),
                src |-> Resolve(original_file_path), key |-> key] }

\* One iteration of the staging loop.
StageFile ==
    /\ pc = "staging"
    /\ ~AllStaged
    /\ disk' = WriteStaged(disk, NextOriginal, encryptor)
    /\ staged_files_for_archive' =
            Append(staged_files_for_archive, staged_file_dest_path(NextOriginal))
    /\ UNCHANGED << pc, others, config, entered, archive_format, encryptor, destination_exists,
                    staging_exists, original_files, archive, error, reported >>

\* An iteration whose source cannot be read: the exception leaves the
\* loop for the finally clause.
StageFileFails ==
    /\ pc = "staging"
    /\ ~AllStaged
    /\ error' = "IOError: staging"
    /\ pc' = "cleanup"
    /\ UNCHANGED << others, config, entered, archive_format, encryptor, destination_exists,
                    staging_exists, disk, original_files, staged_files_for_archive,
                    archive, reported >>

\* compress_files, format 'tar.gz': tarfile.open(archive_path_output, "w:gz")
ArchiveOpen ==
    /\ pc = "staging"
    /\ AllStaged
    /\ archive_format = "tar.gz"
    /\ archive' = [state |-> "partial", entries |-> <<>>]
    /\ pc' = "archiving"
    /\ UNCHANGED << others, config, entered, archive_format, encryptor, destination_exists,
                    staging_exists, disk, original_files, staged_files_for_archive,
                    error, reported >>

\* tarfile.open fails: the destination cannot be written.
ArchiveOpenFails ==
    /\ pc = "staging"
    /\ AllStaged
    /\ archive_format = "tar.gz"
    /\ error' = "IOError: archive open"
    /\ pc' = "cleanup"
    /\ UNCHANGED << others, config, entered, archive_format, encryptor, destination_exists,
                    staging_exists, disk, original_files, staged_files_for_archive,
                    archive, reported >>

\* compress_files, format 'zip': no branch of compress_files handles it,
\* it returns and run_backup prints its success line.
CompressZip ==
    /\ pc = "staging"
    /\ AllStaged
    /\ archive_format = "zip"
    /\ reported' = "Backup successful!"
    /\ pc' = "cleanup"
    /\ UNCHANGED << others, config, entered, archive_format, encryptor, destination_exists,
                    staging_exists, disk, original_files, staged_files_for_archive,
                    archive, error >>

\* file_path.relative_to(staging_area)
arcname(file_path) == SubSeq(file_path, Len(StagingPath) + 1, Len(file_path))

\* The entry tar.add(file_path, arcname) appends: the bytes of the file
\* that file_path leads to.
TarEntry(files, file_path) ==
    LET f == CHOOSE g \in files : g.path = Target(file_path)
    IN  [name |-> arcname(file_path), src |-> f.src, key |-> f.key]

NextStaged == staged_files_for_archive[Len(archive.entries) + 1]

AllAdded == Len(archive.entries) = Len(staged_files_for_archive)

\* One iteration of the loop of compress_files.
ArchiveAdd ==
    /\ pc = "archiving"
    /\ ~AllAdded
    /\ archive' = [archive EXCEPT !.entries = Append(@, TarEntry(disk, NextStaged))]
    /\ UNCHANGED << pc, others, config, entered, archive_format, encryptor, destination_exists,
                    staging_exists, disk, original_files, staged_files_for_archive,
                    error, reported >>

\* tar.add fails partway: the with block closes the file it has written
\* so far and the exception reaches the finally clause of run_backup.
ArchiveAddFails ==
    /\ pc = "archiving"
    /\ ~AllAdded
    /\ error' = "IOError: archive write"
    /\ pc' = "cleanup"
    /\ UNCHANGED << others, config, entered, archive_format, encryptor, destination_exists,
                    staging_exists, disk, original_files, staged_files_for_archive,
                    archive, reported >>

\* The with block of compress_files ends, run_backup prints its success line.
ArchiveClose ==
    /\ pc = "archiving"
    /\ AllAdded
    /\ archive' = [archive EXCEPT !.state = "complete"]
    /\ reported' = "Backup successful!"
    /\ pc' = "cleanup"
    /\ UNCHANGED << others, config, entered, archive_format, encryptor, destination_exists,
                    staging_exists, disk, original_files, staged_files_for_archive,
                    error >>

\* The finally clause: _cleanup_staging_area, then return or re-raise.
Cleanup ==
    /\ pc = "cleanup"
    /\ disk' = IF staging_exists THEN rmtree(disk) ELSE disk
    /\ staging_exists' = FALSE
    /\ pc' = IF error = "" THEN "done" ELSE "failed"
    /\ UNCHANGED << others, config, entered, archive_format, encryptor, destination_exists,
                    original_files, staged_files_for_archive, archive, error, reported >>

Next ==
    \/ \E prompt \in BOOLEAN, passphrase, confirm_passphrase \in Passphrases,
          format \in ArchiveFormats :
            Construct(prompt, passphrase, confirm_passphrase, format)
    \/ Discover
    \/ SetupStaging
    \/ StageFile
    \/ StageFileFails
    \/ ArchiveOpen
    \/ ArchiveOpenFails
    \/ CompressZip
    \/ ArchiveAdd
    \/ ArchiveAddFails
    \/ ArchiveClose
    \/ Cleanup

Spec == Init /\ [][Next]_vars

\* run_backup has returned ("done") or raised ("failed"); "aborted" is
\* __init__ raising, before any run_backup.
RunEnded == pc \in {"done", "failed"}

(***************************************************************************)
(* The cipher on its own: one file encrypted, the blob possibly altered,   *)
(* then decrypted.                                                         *)
(***************************************************************************)

\* No BackupManager in use.
ManagerIdle ==
    /\ pc = "new"
    /\ files_to_include = <<>>
    /\ histfile = None
    /\ unreadable = {}
    /\ entered = None
    /\ archive_format = "tar.gz"
    /\ encryptor = Unset
    /\ destination_exists = FALSE
    /\ staging_exists = FALSE
    /\ disk = {}
    /\ original_files = <<>>
    /\ staged_files_for_archive = <<>>
    /\ archive = NoArchive
    /\ error = ""
    /\ reported = ""

CipherInit ==
    /\ ManagerIdle
    /\ KeyBackupIdle
    /\ c_pc = "plain"
    /\ c_key \in Keys
    /\ c_plain \in Plaintexts
    /\ c_written = <<>>
    /\ c_blob = <<>>
    /\ c_issued = {}
    /\ c_flips = 0
    /\ c_dkey = Unset
    /\ c_out_exists = FALSE
    /\ c_out = <<>>
    /\ c_result = ""

\* FileEncryptor.encrypt_file with the nonce os.urandom returned.
Encrypt(nonce) ==
    /\ c_pc = "plain"
    /\ c_written' = encrypt_file(c_key, nonce, c_plain)
    /\ c_blob' = c_written'
    /\ c_issued' = c_issued \cup
            { [key |-> c_key, nonce |-> nonce,
               data |-> AESGCM_encrypt(c_key, nonce, c_plain)] }
    /\ c_pc' = "encrypted"
    /\ UNCHANGED << manager_vars, keybackup_vars, c_key, c_plain, c_flips, c_dkey, c_out_exists,
                    c_out, c_result >>

\* Someone flips one bit of the stored blob.
Tamper(i) ==
    /\ c_pc = "encrypted"
    /\ c_flips < MaxFlips
    /\ c_blob' = [c_blob EXCEPT ![i] = FlipBit(@)]
    /\ c_flips' = c_flips + 1
    /\ UNCHANGED << manager_vars, keybackup_vars, c_pc, c_key, c_plain, c_written, c_issued, c_dkey,
                    c_out_exists, c_out, c_result >>

\* FileEncryptor.decrypt_file of a FileEncryptor holding key: the output
\* file is opened for writing, and written once aesgcm.decrypt has returned.
Decrypt(key) ==
    /\ c_pc = "encrypted"
    /\ c_dkey' = key
    /\ c_out_exists' = TRUE
    /\ LET r == decrypt_file(c_issued, key, c_blob)
       IN  /\ c_out' = IF r.ok THEN r.plaintext ELSE <<>>
           /\ c_result' = IF r.ok THEN "ok" ELSE "InvalidTag"
    /\ c_pc' = "decrypted"
    /\ UNCHANGED << manager_vars, keybackup_vars, c_key, c_plain, c_written, c_blob, c_issued, c_flips >>

CipherNext ==
    \/ \E nonce \in Nonces : Encrypt(nonce)
    \/ \E i \in 1..Len(c_blob) : Tamper(i)
    \/ \E key \in Keys : Decrypt(key)

SpecCipher == CipherInit /\ [][CipherNext]_vars

(***************************************************************************)
(* KeyBackup.__init__ and KeyBackup.run_backup                             *)
(***************************************************************************)

KeyBackupInit ==
    /\ ManagerIdle
    /\ CipherIdle
    /\ k_pc = "new"
    /\ k_keys \in [1..2 -> KeyPathKinds]
    /\ \E t \in TempDirStates : k_temp_exists = t.exists /\ k_temp_files = t.files
    /\ k_zip \in ZipStates
    /\ k_error = ""

\* KeyBackup.__init__: os.makedirs(self.temp_dir, exist_ok=True)
KBConstruct ==
    /\ k_pc = "new"
    /\ k_temp_exists' = TRUE
    /\ k_pc' = "copy1"
    /\ UNCHANGED << manager_vars, cipher_vars, k_keys, k_temp_files, k_zip, k_error >>

\* One iteration of the loop of prepare_files, over key path i: a missing
\* path is skipped with a warning, a file is copied into temp_dir, and
\* copy2 of a file that cannot be read raises out of run_backup.
KBCopy(i) ==
    /\ k_pc = (IF i = 1 THEN "copy1" ELSE "copy2")
    /\ IF k_keys[i] = "unreadable"
       THEN /\ k_pc' = "failed"
            /\ k_error' = "PermissionError: prepare_files"
            /\ UNCHANGED k_temp_files
       ELSE /\ k_pc' = IF i = 1 THEN "copy2" ELSE "zip"
            /\ k_temp_files' = IF k_keys[i] = "file"
                                THEN k_temp_files \cup {KeyNames[i]}
                                ELSE k_temp_files
            /\ UNCHANGED k_error
    /\ UNCHANGED << manager_vars, cipher_vars, k_keys, k_temp_exists, k_zip >>

\* create_encrypted_zip: pyzipper.AESZipFile(zip_path, 'w', ...)
KBZipOpen ==
    /\ k_pc = "zip"
    /\ k_zip' = [state |-> "partial", entries |-> {}]
    /\ k_pc' = "zipping"
    /\ UNCHANGED << manager_vars, cipher_vars, k_keys, k_temp_exists, k_temp_files,
                    k_error >>

\* The zip file cannot be created: the exception leaves run_backup.
KBZipOpenFails ==
    /\ k_pc = "zip"
    /\ k_pc' = "failed"
    /\ k_error' = "OSError: create_encrypted_zip"
    /\ UNCHANGED << manager_vars, cipher_vars, k_keys, k_temp_exists, k_temp_files,
                    k_zip >>

\* One iteration of the loop over os.listdir(self.temp_dir): zf.write
KBZipWrite(filename) ==
    /\ k_pc = "zipping"
    /\ filename \in k_temp_files \ k_zip.entries
    /\ k_zip' = [k_zip EXCEPT !.entries = @ \cup {filename}]
    /\ UNCHANGED << manager_vars, cipher_vars, k_pc, k_keys, k_temp_exists,
                    k_temp_files, k_error >>

\* zf.write fails partway: the exception leaves run_backup.
KBZipWriteFails ==
    /\ k_pc = "zipping"
    /\ k_temp_files \ k_zip.entries # {}
    /\ k_pc' = "failed"
    /\ k_error' = "OSError: create_encrypted_zip"
    /\ UNCHANGED << manager_vars, cipher_vars, k_keys, k_temp_exists, k_temp_files,
                    k_zip >>

\* The with block of create_encrypted_zip ends and zip_path is returned.
KBZipClose ==
    /\ k_pc = "zipping"
    /\ k_temp_files \ k_zip.entries = {}
    /\ k_zip' = [k_zip EXCEPT !.state = "complete"]
    /\ k_pc' = "cleanup"
    /\ UNCHANGED << manager_vars, cipher_vars, k_keys, k_temp_exists, k_temp_files,
                    k_error >>

\* cleanup: shutil.rmtree(self.temp_dir), then run_backup prints and returns.
KBCleanup ==
    /\ k_pc = "cleanup"
    /\ k_temp_exists' = FALSE
    /\ k_temp_files' = {}
    /\ k_pc' = "done"
    /\ UNCHANGED << manager_vars, cipher_vars, k_keys, k_zip, k_error >>

KeyBackupNext ==
    \/ KBConstruct
    \/ \E i \in 1..2 : KBCopy(i)
    \/ KBZipOpen
    \/ KBZipOpenFails
    \/ \E filename \in k_temp_files : KBZipWrite(filename)
    \/ KBZipWriteFails
    \/ KBZipClose
    \/ KBCleanup

SpecKeyBackup == KeyBackupInit /\ [][KeyBackupNext]_vars

(***************************************************************************)
(* Properties                                                              *)
(***************************************************************************)

\* C1: once run_backup has ended, by return or by exception in any phase,
\* the staging root does not exist, also when the run started with a stale
\* staging root or discovered no files.
C1_StagingRootGoneAfterRun == RunEnded => ~staging_exists

\* C2: when archiving fails partway through writing, no file exists under
\* the archive's final name after the run has ended.
C2_NoArchiveAfterFailedWrite ==
    (pc = "failed" /\ error = "IOError: archive write") => archive.state = "absent"

\* C3: the archive file exists (opened, partly or completely written) only
\* when every discovered file has been staged and no staging step has
\* failed, and while it is being written every discovered file's copy is in
\* place (or overwritten by a later file staged to the same path); a run
\* whose staging failed has no archive file.
C3_ArchiveOnlyAfterAllStaged ==
    /\ archive.state # "absent" =>
          /\ Len(staged_files_for_archive) = Len(original_files)
          /\ error # "IOError: staging"
    /\ pc = "archiving" =>
          \A i \in 1..Len(original_files) :
            \E f \in disk :
                /\ f.path = Target(StagingPath \o relative_path(original_files[i]))
                /\ \/ f.src = Resolve(original_files[i])
                   \/ \E j \in (i + 1)..Len(original_files) :
                         Target(staged_files_for_archive[j]) = f.path
    /\ error = "IOError: staging" => archive.state = "absent"

\* C3 witness: the archive has just been opened in a run that discovered
\* and staged at least two files.
C3_Witness ==
    /\ pc = "archiving"
    /\ archive.state = "partial"
    /\ archive.entries = <<>>
    /\ Len(original_files) >= 2
    /\ Len(staged_files_for_archive) = Len(original_files)

\* C4: with the empty passphrase entered at both prompts, no file is
\* staged, no archive is produced and no success is reported.
C4_EmptyPassphraseRejected ==
    entered = <<"", "">> =>
        /\ staged_files_for_archive = <<>>
        /\ archive.state = "absent"
        /\ reported # "Backup successful!"

\* C5: the step that aborts with the passphrase-mismatch error changes
\* nothing on the filesystem: not the staging root, not the backup
\* destination directory, not the archive.
C5_MismatchBeforeAnyMutation ==
    [][error' = "ValueError: Passphrases do not match." /\ error = ""
        => /\ destination_exists' = destination_exists
           /\ staging_exists' = staging_exists
           /\ disk' = disk
           /\ archive' = archive]_vars

\* C6: once run_backup has ended, the encryptor holds no derived key.
C6_KeyDestroyedAfterRun == RunEnded => encryptor \in {None, Unset}

\* C7: a run with a non-empty discovered set either ends with an error or
\* reports success with a complete archive at the reported path.
C7_BinaryOutcome ==
    (RunEnded /\ original_files # <<>>) =>
        \/ pc = "failed" /\ error # ""
        \/ pc = "done" /\ reported = "Backup successful!" /\ archive.state = "complete"

\* C8: no two members of the list discover_all_files returned denote the
\* same file once their paths are resolved, and every member is a regular
\* file.
C8_NoDuplicateCanonicalPaths ==
    /\ \A i, j \in 1..Len(original_files) :
          Resolve(original_files[i]) = Resolve(original_files[j]) => i = j
    /\ \A i \in 1..Len(original_files) : is_file(original_files[i])

\* C9: every staged destination path run_backup has written to lies
\* strictly under the staging root.
C9_StagedUnderStagingRoot ==
    \A i \in 1..Len(staged_files_for_archive) :
        Under(StagingPath, Target(staged_files_for_archive[i]))

\* C10: when every discovered file has been staged without failure, the
\* staged list has one entry per discovered file and no staged path
\* appears twice.
C10_StagingOneToOne ==
    (pc \in {"staging", "archiving", "cleanup", "done"} /\ error = "" /\ AllStaged) =>
        /\ Len(staged_files_for_archive) = Len(original_files)
        /\ \A i, j \in 1..Len(staged_files_for_archive) :
              staged_files_for_archive[i] = staged_files_for_archive[j] => i = j

\* C11: once compress_files has returned without error and the run has
\* reported success, the archive holds one entry per staged file, in the
\* staged order, each named by its staged path relative to the staging
\* root, and nothing else.
C11_ArchiveMirrorsStaging ==
    reported = "Backup successful!" =>
        /\ archive.state = "complete"
        /\ Len(archive.entries) = Len(staged_files_for_archive)
        /\ \A i \in 1..Len(archive.entries) :
              archive.entries[i].name = relative_path(original_files[i])
        /\ { archive.entries[i].name : i \in 1..Len(archive.entries) }
              = { relative_path(original_files[i]) : i \in 1..Len(original_files) }

\* C12: decrypting, with the key it was encrypted under, the blob that
\* encrypt_file wrote (the 12-byte nonce, then ciphertext and tag) yields
\* exactly the content of the encrypted file, the empty file included.
C12_RoundTrip ==
    /\ c_pc \in {"encrypted", "decrypted"} =>
          /\ Len(c_written) = NonceLen + Len(c_plain) + TagLen
          /\ \A t \in c_issued : SubSeq(c_written, 1, NonceLen) = t.nonce
    /\ (c_pc = "decrypted" /\ c_blob = c_written /\ c_dkey = c_key) =>
          /\ c_result = "ok"
          /\ c_out = c_plain

\* C12 witness: the empty file encrypted and decrypted under one key.
C12_Witness ==
    /\ c_pc = "decrypted"
    /\ c_plain = <<>>
    /\ c_blob = c_written
    /\ c_dkey = c_key
    /\ c_result = "ok"

\* C13: decrypt_file of a blob that differs from the one written in a bit
\* of nonce, ciphertext or tag, or under another key, ends with InvalidTag
\* and has written nothing to the output file.
C13_TamperDetected ==
    (c_pc = "decrypted" /\ (c_blob # c_written \/ c_dkey # c_key)) =>
        /\ c_result = "InvalidTag"
        /\ c_out = <<>>

\* C13 witness: a bit of the ciphertext of a non-empty file was flipped and
\* decrypt_file, under the right key, has ended.
C13_Witness ==
    /\ c_pc = "decrypted"
    /\ c_plain # <<>>
    /\ c_dkey = c_key
    /\ c_flips = 1
    /\ c_blob[NonceLen + 1] # c_written[NonceLen + 1]
    /\ c_result = "InvalidTag"

\* C14 as claimed: a key is acquired (passphrase prompted, key derived)
\* only once discovery has returned a non-empty list, and a run whose
\* discovery is empty ends without a key, a staging root or an archive.
C14_KeyAcquiredAfterDiscovery ==
    /\ (entered # None \/ encryptor \notin {Unset, None}) => original_files # <<>>
    /\ reported = "No files found to back up." =>
          /\ entered = None
          /\ encryptor \in {Unset, None}
          /\ archive = NoArchive

\* The steps of the orchestrator, in the order the code takes them.
C14_Order ==
    { <<"new", "constructed">>, <<"new", "aborted">>,
      <<"constructed", "setup">>, <<"constructed", "done">>, <<"constructed", "failed">>,
      <<"setup", "staging">>, <<"staging", "archiving">>, <<"staging", "cleanup">>,
      <<"archiving", "cleanup">>, <<"cleanup", "done">>, <<"cleanup", "failed">> }

\* C14, amended: the order is key acquisition, discovery, staging,
\* archiving, cleanup, done.  The passphrase is prompted and the key derived
\* in the constructor only, before discovery; discovery happens once, after
\* construction; staging starts only with a non-empty discovered list; and
\* a run whose discovery is empty returns as a no-op, creating neither a
\* staging root nor an archive and touching no file.
C14_KeyAcquiredThenDiscovery ==
    [][/\ pc' # pc => <<pc, pc'>> \in C14_Order
       /\ (entered' # entered \/ encryptor' # encryptor) =>
             pc = "new" /\ original_files = <<>>
       /\ original_files' # original_files =>
             pc = "constructed" /\ encryptor # Unset
       /\ pc' = "setup" => original_files' # <<>>
       /\ (pc = "constructed" /\ pc' = "done") =>
             /\ original_files' = <<>>
             /\ reported' = "No files found to back up."
             /\ staging_exists' = staging_exists
             /\ disk' = disk
             /\ archive' = NoArchive
             /\ staged_files_for_archive' = <<>>]_vars

\* C14 witness: a run with a derived key whose discovery was empty has
\* returned, the key having been acquired before discovery.
C14_Witness ==
    /\ pc = "done"
    /\ reported = "No files found to back up."
    /\ encryptor = FileEncryptor("correct-horse")
    /\ original_files = <<>>
    /\ archive = NoArchive

\* The rule's enabled flag, as the configuration carries it.
C15_IsEnabled(rule) == rule.enabled

\* C15: the list discover_all_files returned holds exactly the files the
\* same rule list yields once its disabled rules are removed: a rule with
\* enabled = false contributes nothing.
C15_DisabledRulesContributeNothing ==
    (pc \notin {"new", "aborted", "constructed"} /\ error # "PermissionError") =>
        { original_files[i] : i \in 1..Len(original_files) }
            = discover_all_files(SelectSeq(files_to_include, C15_IsEnabled),
                                 histfile, unreadable)

\* C16: discover_all_files raises no error, whatever the rule list and the
\* filesystem (missing directory, absent file, unreadable directory, a
\* custom path that is a directory): run_backup never ends by an exception
\* of discovery.
C16_DiscoveryNeverRaises == ~(pc = "failed" /\ error = "PermissionError")

\* C17: once KeyBackup.run_backup has ended, by return or by an exception
\* of prepare_files or create_encrypted_zip, the directory temp_keys_backup
\* with the plaintext copies of the key files no longer exists.
C17_TempDirGoneAfterRun == k_pc \in {"done", "failed"} => ~k_temp_exists

====
